---------------------------- MODULE Spec2Model ----------------------------
(***************************************************************************)
(* A model of mapmaker: load_stack, montage, calc_extent, make_fig         *)
(* (src/__init__.py) and the command line driver cli (src/__main__.py).    *)
(*                                                                         *)
(* Each component has its own specification over the shared variables:     *)
(*   SpecMontage  montage(stack, shape)                                    *)
(*   SpecExtent   calc_extent(tile0_loc, tile_shape, montage_shape, ps)    *)
(*   SpecFig      calc_extent followed by make_fig's annotation loop       *)
(*   SpecLoad     load_stack(top_dir)                                      *)
(*   SpecCli      cli: locations, then the pool of save_montage tasks      *)
(*                                                                         *)
(* Python floats are modelled as binary floating point numbers with        *)
(* MantBits significant bits, rounded to nearest (ties to even) after      *)
(* every operation, as IEEE 754 does with 53 bits.  A float is held as an  *)
(* integer count of 2^-FracBits, the smallest spacing of the format.       *)
(***************************************************************************)
EXTENDS Integers, Sequences, FiniteSets, TLC

VARIABLES
    pc,             \* position of the component under study
    stack,          \* montage: the input ndarray (channel, tile, y, x)
    montage_shape,  \* (tiles_down, tiles_across)
    montage_data,   \* montage: the returned ndarray, or the raised error
    tile0_loc,      \* calc_extent: (y0, x0) of tile 0
    tile_shape,     \* calc_extent: (ny, nx)
    pixel_size,     \* calc_extent: pixel_size argument
    extent,         \* (left, right, bottom, top)
    locations,      \* make_fig: sequence of <<title, <<y_mm, x_mm>>>>
    patches,        \* make_fig: rectangles added to the axes
    annotations,    \* make_fig: annotations added to the axes
    files,          \* load_stack: names of the files in top_dir
    paths,          \* load_stack: the nested list of names that is read
    loaded,         \* load_stack: the returned stack, or the raised error
    cli             \* cli: the state of one run of the command

vars == <<pc, stack, montage_shape, montage_data, tile0_loc, tile_shape,
          pixel_size, extent, locations, patches, annotations, files, paths,
          loaded, cli>>

None == <<>>

-----------------------------------------------------------------------------
(* Bounds of the model *)

MantBits == 5       \* significant bits of a float
FracBits == 7       \* a float is a multiple of 2^-FracBits
MaxTile == 3        \* tile pixel dimensions ny, nx range over 1..MaxTile
MaxGrid == 2        \* montage dimensions range over 1..MaxGrid
MaxChan == 2        \* a stack has 1..MaxChan channels
MaxLocs == 2        \* a location set has at most MaxLocs locations
MaxTileFiles == 2   \* a channel has at most MaxTileFiles tile files
MaxDirs == 2        \* a run has 1..MaxDirs montage directories
MaxWorkers == 2     \* the process pool has 1..MaxWorkers workers

-----------------------------------------------------------------------------
(* Floating point arithmetic *)

RECURSIVE Pow2(_)
Pow2(k) == IF k <= 0 THEN 1 ELSE 2 * Pow2(k - 1)

RECURSIVE BitLen(_)
BitLen(n) == IF n <= 0 THEN 0 ELSE 1 + BitLen(n \div 2)

Abs(v) == IF v < 0 THEN -v ELSE v

Max(a, b) == IF a >= b THEN a ELSE b

Min(a, b) == IF a <= b THEN a ELSE b

\* The spacing of the floats around the real number v (in units of 2^-FracBits).
Ulp(v) == Pow2(BitLen(Abs(v)) - MantBits)

\* num/den rounded to the nearest multiple of q, ties to the even multiple.
RoundRat(num, den, q) ==
    LET k == num \div (den * q)
        rem == num - k * den * q
    IN  IF 2 * rem < den * q THEN k * q
        ELSE IF 2 * rem > den * q THEN (k + 1) * q
        ELSE IF k % 2 = 0 THEN k * q ELSE (k + 1) * q

\* The float nearest to the real number num/den (den > 0), in units of
\* 2^-FracBits.
FlRat(num, den) ==
    LET a == Abs(num)
        r == RoundRat(a, den, Ulp(a \div den))
    IN  IF num < 0 THEN -r ELSE r

\* The float nearest to the real number v * 2^-FracBits.
Fl(v) == FlRat(v, 1)

\* A decimal literal num/den of the source, as the float the interpreter
\* stores for it.
FLit(num, den) == FlRat(num * Pow2(FracBits), den)

FAdd(a, b) == Fl(a + b)

FSub(a, b) == Fl(a - b)

\* int * float: the integer is exact, the product is rounded once.
FMulI(n, a) == Fl(n * a)

\* float * float
FMul(a, b) == FlRat(a * b, Pow2(FracBits))

\* float / int
FDivI(a, n) == FlRat(a, n)

-----------------------------------------------------------------------------
(* calc_extent *)

DefaultPixelSize == FLit(13, 100)

\* calc_extent with the span of one tile in place of the whole montage's.
calc_extent_one_tile(t0, tshape, mshape, ps) ==
    LET top == FAdd(t0[1], FMulI(tshape[1] \div 2, ps))
        left == FAdd(t0[2], FMulI(tshape[2] \div 2, ps))
        bottom == FSub(top, FMulI(tshape[1], ps))
        right == FSub(left, FMulI(tshape[2], ps))
    IN  <<left, right, bottom, top>>

calc_extent(t0, tshape, mshape, ps) ==
    LET y0 == t0[1]
        x0 == t0[2]
        ny == tshape[1]
        nx == tshape[2]
        ny_tot == tshape[1] * mshape[1]
        nx_tot == tshape[2] * mshape[2]
        top == FAdd(y0, FMulI(ny \div 2, ps))
        left == FAdd(x0, FMulI(nx \div 2, ps))
        bottom == FSub(top, FMulI(ny_tot, ps))
        right == FSub(left, FMulI(nx_tot, ps))
    IN  <<left, right, bottom, top>>

\* Inputs of calc_extent
Tile0Coords == {FLit(0, 1), FLit(3, 10), FLit(100, 1), FLit(-25, 2)}

PixelSizes == {FLit(0, 1), DefaultPixelSize, 2 * DefaultPixelSize,
               FLit(1, 2)}

TileDims == (1..MaxTile) \cup {512}

GridDims == 1..MaxGrid

IdleMontage == stack = None /\ montage_data = None

IdleFig == locations = None /\ patches = None /\ annotations = None

IdleLoad == files = None /\ paths = None /\ loaded = None

IdleCli == cli = None

InitExtent ==
    /\ pc = "call"
    /\ tile0_loc \in Tile0Coords \X Tile0Coords
    /\ tile_shape \in TileDims \X TileDims
    /\ montage_shape \in GridDims \X GridDims
    /\ pixel_size \in PixelSizes
    /\ extent = None
    /\ IdleMontage /\ IdleFig /\ IdleLoad /\ IdleCli

CalcExtent ==
    /\ pc = "call"
    /\ extent' = calc_extent(tile0_loc, tile_shape, montage_shape, pixel_size)
    /\ pc' = "returned"
    /\ UNCHANGED <<stack, montage_shape, montage_data, tile0_loc, tile_shape,
                   pixel_size, locations, patches, annotations, files, paths,
                   loaded, cli>>

NextExtent == CalcExtent

SpecExtent == InitExtent /\ [][NextExtent]_vars

-----------------------------------------------------------------------------
(* Claims about calc_extent *)

Left == extent[1]

Right == extent[2]

Bottom == extent[3]

Top == extent[4]

\* The exact (real) physical spans: tile pixels * grid tiles * pixel size.
SpanX == tile_shape[2] * montage_shape[2] * pixel_size

SpanY == tile_shape[1] * montage_shape[1] * pixel_size

\* C3: calc_extent returns top = y0 + (ny * pixel_size) / 2 and
\* left = x0 + (nx * pixel_size) / 2 for every tile shape, odd or even,
\* the right hand sides evaluated in floating point as written.
C3_HalfTileOffset ==
    pc = "returned" =>
        /\ Top = FAdd(tile0_loc[1], FDivI(FMulI(tile_shape[1], pixel_size), 2))
        /\ Left = FAdd(tile0_loc[2], FDivI(FMulI(tile_shape[2], pixel_size), 2))

\* C4 as stated: left - right and top - bottom equal the exact spans, and
\* right <= left, bottom <= top when pixel_size >= 0.
C4_ExactSpan ==
    pc = "returned" =>
        /\ Left - Right = SpanX
        /\ Top - Bottom = SpanY
        /\ pixel_size >= 0 => (Right <= Left /\ Bottom <= Top)

\* C4 as amended: left - right (top - bottom) differs from the exact span by
\* at most half a unit in the last place of the span plus half a unit in the
\* last place of right (bottom): the two roundings of the subtraction
\* left - nx_tot * pixel_size.  For pixel_size >= 0, right <= left and
\* bottom <= top hold exactly.
C4_SpanUpToRounding ==
    pc = "returned" =>
        /\ 2 * Abs(Left - Right - SpanX) <= Ulp(SpanX) + Ulp(Right)
        /\ 2 * Abs(Top - Bottom - SpanY) <= Ulp(SpanY) + Ulp(Bottom)
        /\ pixel_size >= 0 => (Right <= Left /\ Bottom <= Top)

\* A call with a positive pixel size whose subtraction was rounded.
C4_Witness ==
    /\ pc = "returned"
    /\ pixel_size > 0
    /\ Left - Right # SpanX
    /\ Right < Left /\ Bottom < Top

-----------------------------------------------------------------------------
(* numpy arrays: a shape, the strides (in elements) and the flat buffer.    *)
(* Axes and indices are numbered from 0 as in numpy; TLA+ sequences from 1. *)

RECURSIVE Size(_)
Size(shp) == IF shp = <<>> THEN 1 ELSE Head(shp) * Size(Tail(shp))

\* Strides of a C-contiguous array of shape shp.
CStrides(shp) == [k \in 1..Len(shp) |-> Size(SubSeq(shp, k + 1, Len(shp)))]

\* The multi-index of the i-th element (from 0) of shape shp in C order.
Unravel(i, shp) ==
    [k \in 1..Len(shp) |-> (i \div Size(SubSeq(shp, k + 1, Len(shp)))) % shp[k]]

RECURSIVE Dot(_, _)
Dot(u, v) == IF u = <<>> THEN 0 ELSE Head(u) * Head(v) + Dot(Tail(u), Tail(v))

\* a[idx]
Element(a, idx) == a.data[1 + Dot(idx, a.strides)]

\* np.arange(Size(shp)).reshape(shp) + 1: every pixel has its own value.
arange(shp) == [shape |-> shp, strides |-> CStrides(shp),
                data |-> [i \in 1..Size(shp) |-> i]]

\* ndarray.reshape: the elements in C order under a new shape; ValueError
\* when the sizes differ.
reshape(a, new_shape) ==
    IF Size(new_shape) # Size(a.shape)
    THEN [error |-> "ValueError"]
    ELSE [shape |-> new_shape, strides |-> CStrides(new_shape),
          data |-> [i \in 1..Size(new_shape) |->
                        Element(a, Unravel(i - 1, a.shape))]]

\* list.remove / list.insert on the list of axes
RemoveAt(sq, k) == SubSeq(sq, 1, k - 1) \o SubSeq(sq, k + 1, Len(sq))

InsertAt(sq, k, e) == SubSeq(sq, 1, k - 1) \o <<e>> \o SubSeq(sq, k, Len(sq))

\* rollaxis that leaves the axes where they are.
rollaxis_noop(a, axis, start) == a

\* np.rollaxis(a, axis, start): a view with the axis moved before start.
rollaxis(a, axis, start) ==
    LET n == Len(a.shape)
        st == IF axis < start THEN start - 1 ELSE start
        axes == InsertAt(RemoveAt([k \in 1..n |-> k - 1], axis + 1), st + 1, axis)
    IN  IF axis = st THEN a
        ELSE [shape |-> [k \in 1..n |-> a.shape[axes[k] + 1]],
              strides |-> [k \in 1..n |-> a.strides[axes[k] + 1]],
              data |-> a.data]

-----------------------------------------------------------------------------
(* montage *)

\* The sanity check with <= in place of ==.
tiles_match_atmost(ntiles, dy, dx) == dy * dx <= ntiles

\* the sanity check of montage
tiles_match(ntiles, dy, dx) == dy * dx = ntiles

Raised(kind, msg) == [ok |-> FALSE, error |-> kind, message |-> msg, array |-> None]

Returned(a) == [ok |-> TRUE, error |-> "", message |-> <<>>, array |-> a]

montage(stk, shp) ==
    LET c == stk.shape[1]
        ntiles == stk.shape[2]
        ny == stk.shape[3]
        nx == stk.shape[4]
        dy == shp[1]
        dx == shp[2]
        new_shape == <<c, dy, dx, ny, nx>>
    IN  IF ~tiles_match(ntiles, dy, dx)
        THEN Raised("AssertionError", <<ntiles, dy, dx>>)
        ELSE LET reshaped == reshape(stk, new_shape)
             IN  IF "error" \in DOMAIN reshaped
                 THEN Raised(reshaped.error, <<>>)
                 ELSE Returned(reshape(rollaxis(reshaped, 2, 4),
                                       <<c, dy * ny, dx * nx>>))

IdleExtent == tile0_loc = None /\ tile_shape = None /\ pixel_size = None
              /\ extent = None

InitMontage ==
    /\ pc = "call"
    /\ \E c \in 1..MaxChan, ntiles \in 1..(MaxGrid * (MaxGrid + 1)),
          ny \in 1..MaxTile, nx \in 1..MaxTile :
            stack = arange(<<c, ntiles, ny, nx>>)
    /\ montage_shape \in GridDims \X (1..(MaxGrid + 1))
    /\ montage_data = None
    /\ IdleExtent /\ IdleFig /\ IdleLoad /\ IdleCli

Montage ==
    /\ pc = "call"
    /\ montage_data' = montage(stack, montage_shape)
    /\ pc' = "returned"
    /\ UNCHANGED <<stack, montage_shape, tile0_loc, tile_shape, pixel_size,
                   extent, locations, patches, annotations, files, paths, loaded,
                   cli>>

NextMontage == Montage

SpecMontage == InitMontage /\ [][NextMontage]_vars

-----------------------------------------------------------------------------
(* Claims about montage *)

\* C1: with tiles_down * tiles_across == N, montage returns an array of
\* shape (c, tiles_down*ny, tiles_across*nx) in which pixel (r, q) of tile k
\* of channel ch is at row (k div tiles_across)*ny + r and column
\* (k mod tiles_across)*nx + q of channel ch.
C1_TilePlacement ==
    (pc = "returned" /\ montage_shape[1] * montage_shape[2] = stack.shape[2]) =>
        LET c == stack.shape[1]
            ny == stack.shape[3]
            nx == stack.shape[4]
            dy == montage_shape[1]
            dx == montage_shape[2]
            out == montage_data.array
        IN  /\ montage_data.ok
            /\ out.shape = <<c, dy * ny, dx * nx>>
            /\ \A ch \in 0..(c - 1), k \in 0..(dy * dx - 1),
                  r \in 0..(ny - 1), q \in 0..(nx - 1) :
                    Element(out, <<ch, (k \div dx) * ny + r, (k % dx) * nx + q>>)
                        = Element(stack, <<ch, k, r, q>>)

\* A montage of two channels on a grid of 2 by 3 tiles of 3 by 2 pixels.
C1_Witness ==
    /\ pc = "returned"
    /\ montage_data.ok
    /\ stack.shape = <<2, 6, 3, 2>>
    /\ montage_shape = <<2, 3>>

\* C2: with tiles_down * tiles_across /= N, montage raises the assertion
\* error that reports N and (tiles_down, tiles_across), and returns no array.
C2_ShapeMismatch ==
    (pc = "returned" /\ montage_shape[1] * montage_shape[2] # stack.shape[2]) =>
        /\ ~montage_data.ok
        /\ montage_data.error = "AssertionError"
        /\ montage_data.message =
               <<stack.shape[2], montage_shape[1], montage_shape[2]>>
        /\ montage_data.array = None

\* A grid of 2 by 2 asked of 6 tiles: fewer grid cells than tiles.
C2_Witness ==
    /\ pc = "returned"
    /\ stack.shape[2] = 6
    /\ montage_shape = <<2, 2>>
    /\ ~montage_data.ok

-----------------------------------------------------------------------------
(* make_fig: the annotation of the plot *)

\* plt.Rectangle((x - width/2, y - height/2), width, height, ...)
make_rec(y, x, width, height) ==
    [xy |-> <<FSub(x, FDivI(width, 2)), FSub(y, FDivI(height, 2))>>,
     width |-> width, height |-> height]

\* The test of make_fig with the y bounds taken in the order of the x bounds.
in_range_y_swapped(x, y, xmax, xmin, ymin, ymax) ==
    xmax >= x /\ x >= xmin /\ ymin >= y /\ y >= ymax

\* xmax >= x >= xmin and ymax >= y >= ymin
in_range(x, y, xmax, xmin, ymin, ymax) ==
    xmax >= x /\ x >= xmin /\ ymax >= y /\ y >= ymin

\* The body of the loop over locations.items(), for the items from the
\* i-th on: the patches and annotations they add, in order.
RECURSIVE annotate_from(_, _, _)
annotate_from(locs, i, ext) ==
    IF i > Len(locs) THEN [patches |-> <<>>, annotations |-> <<>>]
    ELSE LET xmax == ext[1]
             xmin == ext[2]
             ymin == ext[3]
             ymax == ext[4]
             title == locs[i][1]
             point == locs[i][2]
             diameter == FMulI(512, FLit(13, 100))
             y == FMulI(1000, point[1])
             x == FMulI(1000, point[2])
             rest == annotate_from(locs, i + 1, ext)
         IN  IF in_range(x, y, xmax, xmin, ymin, ymax)
             THEN [patches |->
                       <<[title |-> title]
                           @@ make_rec(y, x, diameter, diameter)>>
                       \o rest.patches,
                   annotations |->
                       <<[text |-> title, xy |-> <<x, y>>,
                          xytext |-> <<x, FAdd(y, FMul(FDivI(diameter, 2),
                                                       FLit(13, 10)))>>]>>
                       \o rest.annotations]
             ELSE rest

\* Stage positions in mm (LocationSet) and the same positions in um.
LocCoordsY == {FLit(1, 128), FLit(2, 128)}

LocCoordsX == {FLit(0, 1), FLit(1, 128), FLit(2, 128)}

FigTile0 == {<<FMulI(1000, FLit(1, 128)), FMulI(1000, FLit(1, 128))>>,
             <<FMulI(1000, FLit(2, 128)), FMulI(1000, FLit(1, 128))>>}

FigTileShapes == {<<1, 1>>, <<2, 2>>, <<512, 512>>}

\* Extents handed to make_fig by a caller other than calc_extent, among them
\* extents in matplotlib's usual order left < right, bottom < top.
GivenExtents ==
    {<<FMulI(1000, FLit(0, 1)), FMulI(1000, FLit(2, 128)),
       FMulI(1000, FLit(0, 1)), FMulI(1000, FLit(2, 128))>>,
     <<FMulI(1000, FLit(2, 128)), FMulI(1000, FLit(0, 1)),
       FMulI(1000, FLit(0, 1)), FMulI(1000, FLit(2, 128))>>,
     <<FMulI(1000, FLit(2, 128)), FMulI(1000, FLit(1, 128)),
       FMulI(1000, FLit(2, 128)), FMulI(1000, FLit(1, 128))>>}

\* A dict of at most MaxLocs locations: titles 1, 2, ... in insertion order.
LocationSets ==
    UNION {[1..n -> LocCoordsY \X LocCoordsX] : n \in 0..MaxLocs}

Items(d) == [i \in 1..Len(d) |-> <<i, d[i]>>]

InitFig ==
    /\ \/ /\ pc = "start"
          /\ tile0_loc \in FigTile0
          /\ tile_shape \in FigTileShapes
          /\ montage_shape \in GridDims \X GridDims
          /\ pixel_size \in PixelSizes
          /\ extent = None
       \/ /\ pc = "extent"
          /\ tile0_loc = None /\ tile_shape = None /\ montage_shape = None
          /\ pixel_size = None
          /\ extent \in GivenExtents
    /\ \E d \in LocationSets : locations = Items(d)
    /\ patches = None /\ annotations = None
    /\ stack = None /\ montage_data = None
    /\ IdleLoad /\ IdleCli

\* extent = calc_extent(tile0_loc, data.shape[-2:], montage_shape, pixel_size)
FigCalcExtent ==
    /\ pc = "start"
    /\ extent' = calc_extent(tile0_loc, tile_shape, montage_shape, pixel_size)
    /\ pc' = "extent"
    /\ UNCHANGED <<stack, montage_shape, montage_data, tile0_loc, tile_shape,
                   pixel_size, locations, patches, annotations, files, paths,
                   loaded, cli>>

MakeFig ==
    /\ pc = "extent"
    /\ LET drawn == annotate_from(locations, 1, extent)
       IN  /\ patches' = drawn.patches
           /\ annotations' = drawn.annotations
    /\ pc' = "saved"
    /\ UNCHANGED <<stack, montage_shape, montage_data, tile0_loc, tile_shape,
                   pixel_size, extent, locations, files, paths, loaded, cli>>

NextFig == FigCalcExtent \/ MakeFig

SpecFig == InitFig /\ [][NextFig]_vars

-----------------------------------------------------------------------------
(* Claims about make_fig *)

Range(sq) == {sq[i] : i \in 1..Len(sq)}

MarkedTitles == {p.title : p \in Range(patches)}

AnnotatedTitles == {a.text : a \in Range(annotations)}

\* The position in um of the i-th location.
UmY(i) == FMulI(1000, locations[i][2][1])

UmX(i) == FMulI(1000, locations[i][2][2])

\* C5: a location gets a marker and an annotation if and only if
\* right <= 1000*x_mm <= left and bottom <= 1000*y_mm <= top, whatever the
\* other locations are; the others add nothing.
C5_Containment ==
    pc = "saved" =>
        /\ \A i \in 1..Len(locations) :
               (locations[i][1] \in MarkedTitles) <=>
                   (Right <= UmX(i) /\ UmX(i) <= Left
                    /\ Bottom <= UmY(i) /\ UmY(i) <= Top)
        /\ AnnotatedTitles = MarkedTitles
        /\ Len(patches) = Cardinality(MarkedTitles)
        /\ Len(annotations) = Cardinality(MarkedTitles)

\* Two locations, the first exactly on the top/left anchor of a computed
\* extent and marked, the second outside and not marked.
C5_Witness ==
    /\ pc = "saved"
    /\ tile0_loc # None
    /\ pixel_size > 0
    /\ Len(locations) = 2
    /\ UmX(1) = Left /\ UmY(1) = Top
    /\ MarkedTitles = {1}

\* C6: a location is marked exactly when its x lies between left and right
\* and its y between bottom and top, in whichever numeric order they are.
C6_OrderIndependent ==
    pc = "saved" =>
        \A i \in 1..Len(locations) :
            (locations[i][1] \in MarkedTitles) <=>
                (Min(Left, Right) <= UmX(i) /\ UmX(i) <= Max(Left, Right)
                 /\ Min(Bottom, Top) <= UmY(i) /\ UmY(i) <= Max(Bottom, Top))

\* The marker geometry of C7 for a square of the given side.
MarkerGeometry(side) ==
    /\ \A p \in Range(patches) :
           /\ p.width = side /\ p.height = side
           /\ p.xy = <<FSub(UmX(p.title), FDivI(side, 2)),
                       FSub(UmY(p.title), FDivI(side, 2))>>
    /\ \A a \in Range(annotations) :
           /\ a.xy = <<UmX(a.text), UmY(a.text)>>
           /\ a.xytext = <<UmX(a.text),
                           FAdd(UmY(a.text),
                                FMul(FDivI(side, 2), FLit(13, 10)))>>

\* C7: every marker is a square of side 512 * pixel_size, pixel_size being
\* the (positive) one the extent was computed with, centered on the point,
\* with the text anchored at (x, y + 1.3 * side / 2) and pointing at (x, y).
C7_MarkerSize ==
    (pc = "saved" /\ tile0_loc # None /\ pixel_size > 0) =>
        MarkerGeometry(FMulI(512, pixel_size))

-----------------------------------------------------------------------------
(* load_stack.  A file name is its sequence of character codes (ASCII).    *)

ProbeLimit == 100

\* "{}".format(i): the decimal digits of i
RECURSIVE Digits(_)
Digits(i) == IF i < 10 THEN <<48 + i>> ELSE Digits(i \div 10) \o <<48 + (i % 10)>>

Str_ch == <<99, 104>>

Str_tif == <<46, 116, 105, 102>>

\* The tile file of a channel: "ch<channel>_<tile>.tif"
TileFile(channel, tile) ==
    Str_ch \o Digits(channel) \o <<95>> \o Digits(tile) \o Str_tif

\* Whether name (in top_dir) matches top_dir + "*ch{}*.tif".format(i):
\* "ch<i>" occurs in it and ".tif" ends it, after that occurrence.
glob_match(name, i) ==
    LET pat == Str_ch \o Digits(i)
        n == Len(name)
    IN  \E j \in 1..n :
            /\ j + Len(pat) - 1 <= n - Len(Str_tif)
            /\ SubSeq(name, j, j + Len(pat) - 1) = pat
            /\ SubSeq(name, n - Len(Str_tif) + 1, n) = Str_tif

\* String comparison: a < b
RECURSIVE StrLess(_, _)
StrLess(a, b) ==
    IF b = <<>> THEN FALSE
    ELSE IF a = <<>> THEN TRUE
    ELSE IF Head(a) # Head(b) THEN Head(a) < Head(b)
    ELSE StrLess(Tail(a), Tail(b))

\* sorted(S)
RECURSIVE sorted(_)
sorted(S) ==
    IF S = {} THEN <<>>
    ELSE LET m == CHOOSE a \in S : \A b \in S \ {a} : StrLess(a, b)
         IN  <<m>> \o sorted(S \ {m})

\* sorted(glob.glob(top_dir + "*ch{}*.tif".format(i)))
subpaths(dir, i) == sorted({f \in dir.names : glob_match(f, i)})

\* Channels whose files a directory may hold.
Channels == {0, 1, 2, 10}

\* A directory with one tile of each of the channels 0..ProbeLimit.
FullDir == {TileFile(c, 0) : c \in 0..ProbeLimit}

InitLoad ==
    /\ pc = "probe"
    /\ \E names \in
           SUBSET {TileFile(c, t) : c \in Channels, t \in 0..(MaxTileFiles - 1)}
             \cup {FullDir} :
         files = [top_dir |-> "montage/", names |-> names]
    /\ paths = <<>>
    /\ loaded = None
    /\ stack = None /\ montage_shape = None /\ montage_data = None
    /\ IdleExtent /\ IdleFig /\ IdleCli

\* One turn of the loop that finds files: i = len(paths).
ProbeFound ==
    /\ pc = "probe"
    /\ Len(paths) < ProbeLimit
    /\ subpaths(files, Len(paths)) # <<>>
    /\ paths' = Append(paths, subpaths(files, Len(paths)))
    /\ UNCHANGED <<pc, stack, montage_shape, montage_data, tile0_loc,
                   tile_shape, pixel_size, extent, locations, patches,
                   annotations, files, loaded, cli>>

\* The loop ends (break, or range(100) exhausted): raise or return.
ProbeEnd ==
    /\ pc = "probe"
    /\ Len(paths) = ProbeLimit \/ subpaths(files, Len(paths)) = <<>>
    /\ IF Len(paths) = 0
       THEN /\ pc' = "raised"
            /\ loaded' = Raised("RuntimeError", files.top_dir)
       ELSE /\ pc' = "returned"
            /\ loaded' = Returned(paths)
    /\ UNCHANGED <<stack, montage_shape, montage_data, tile0_loc, tile_shape,
                   pixel_size, extent, locations, patches, annotations, files,
                   paths, cli>>

NextLoad == ProbeFound \/ ProbeEnd

SpecLoad == InitLoad /\ [][NextLoad]_vars

-----------------------------------------------------------------------------
(* Claims about load_stack *)

\* The files of channel c in the directory.
FilesOfChannel(c) == {f \in files.names : \E t \in 0..MaxTileFiles : f = TileFile(c, t)}

\* The first channel index with no files, at most the bound.
FirstMissing ==
    CHOOSE k \in 0..ProbeLimit :
        /\ k < ProbeLimit => FilesOfChannel(k) = {}
        /\ \A i \in 0..(k - 1) : FilesOfChannel(i) # {}

\* C8: load_stack returns exactly the channels 0..k-1, k the first index
\* without files (at most 100), each with its own files sorted; no file of
\* a channel above k is loaded; with k = 0 it raises, naming the directory.
C8_ChannelsUpToFirstGap ==
    pc \in {"returned", "raised"} =>
        LET k == FirstMissing
        IN  IF k = 0
            THEN pc = "raised" /\ loaded.message = files.top_dir
            ELSE /\ pc = "returned"
                 /\ Len(loaded.array) = k
                 /\ \A i \in 0..(k - 1) :
                        loaded.array[i + 1] = sorted(FilesOfChannel(i))
                 /\ \A c \in (k + 1)..ProbeLimit : \A f \in FilesOfChannel(c) :
                        \A i \in 1..Len(loaded.array) :
                            f \notin Range(loaded.array[i])

-----------------------------------------------------------------------------
(* cli: the locations, then the save_montage tasks on the process pool.    *)
(* A location path is modelled by the locations its file or directory      *)
(* yields, a montage directory by what save_montage finds in it.           *)

\* get_locations without the check for an empty result.
get_locations_unchecked(location_path) ==
    Returned(UNION Range(location_path))

get_locations(location_path) ==
    LET sim_locations == UNION Range(location_path)
    IN  IF sim_locations = {}
        THEN Raised("RuntimeError", "No locations found.")
        ELSE Returned(sim_locations)

\* Locations inside the extent of the montages of the run.
InFrame == {"cellA"}

LocationPaths ==
    {<<>>, <<{}>>, <<{"cellA", "cellB"}>>, <<{}, {"cellB"}>>, <<{}, {}>>}

\* What a montage directory holds: a settings file or none, the number of
\* channels with tile files, and whether the tiles fill the settings' grid.
DirKinds ==
    {[settings |-> TRUE, channels |-> 1, grid_ok |-> TRUE],
     [settings |-> TRUE, channels |-> 2, grid_ok |-> TRUE],
     [settings |-> FALSE, channels |-> 1, grid_ok |-> TRUE],
     [settings |-> TRUE, channels |-> 0, grid_ok |-> TRUE],
     [settings |-> TRUE, channels |-> 1, grid_ok |-> FALSE]}

\* Whether save_montage succeeds on a directory.
Good(d) == d.settings /\ d.channels > 0 /\ d.grid_ok

\* The exception save_montage raises on a directory that is not Good.
FailureOf(d) ==
    IF ~d.settings THEN "IndexError"
    ELSE IF d.channels = 0 THEN "RuntimeError"
    ELSE "AssertionError"

Task(status) == [status |-> status, saved |-> <<>>]

InitCli ==
    /\ pc = "start"
    /\ \E lp \in LocationPaths, answer \in BOOLEAN, tif \in BOOLEAN,
          n \in 1..MaxDirs, w \in 1..MaxWorkers :
         \E dirs \in [1..n -> DirKinds] :
            /\ lp # <<>> => answer
            /\ cli = [location_path |-> lp, answer |-> answer, tif |-> tif,
                      montage_dir |-> dirs, num_workers |-> w,
                      sim_locations |-> {}, error |-> "",
                      tasks |-> [t \in 1..n |-> Task("pending")],
                      queue |-> <<>>]
    /\ stack = None /\ montage_shape = None /\ montage_data = None
    /\ IdleExtent /\ IdleFig /\ IdleLoad

NotCli == <<stack, montage_shape, montage_data, tile0_loc, tile_shape,
            pixel_size, extent, locations, patches, annotations, files, paths,
            loaded>>

\* The head of cli: confirm or get_locations.
Locate ==
    /\ pc = "start"
    /\ IF cli.location_path = <<>>
       THEN IF cli.answer
            THEN /\ pc' = "located"
                 /\ cli' = [cli EXCEPT !.sim_locations = {}]
            ELSE /\ pc' = "aborted"
                 /\ cli' = [cli EXCEPT !.error = "Abort"]
       ELSE LET got == get_locations(cli.location_path)
            IN  IF got.ok
                THEN /\ pc' = "located"
                     /\ cli' = [cli EXCEPT !.sim_locations = got.array]
                ELSE /\ pc' = "no_locations"
                     /\ cli' = [cli EXCEPT !.error = got.message]
    /\ UNCHANGED NotCli

Pending(tasks) == {t \in DOMAIN tasks : tasks[t].status = "pending"}

\* Tasks that hold a worker: fired and not yet collected by the scheduler.
Active(tasks) ==
    {t \in DOMAIN tasks : tasks[t].status \in {"running", "returned", "failed"}}

\* The scheduler's fire_task loop: as many pending tasks as workers are free.
Fired(tasks, num_workers) ==
    LET free == num_workers - Cardinality(Active(tasks))
        k == Min(free, Cardinality(Pending(tasks)))
    IN  {[t \in DOMAIN tasks |->
             IF t \in S THEN Task("running") ELSE tasks[t]] :
         S \in {S \in SUBSET Pending(tasks) : Cardinality(S) = k}}

\* tocompute.compute(scheduler="processes"): the first tasks are fired.
Compute ==
    /\ pc = "located"
    /\ \E tasks \in Fired(cli.tasks, cli.num_workers) :
           cli' = [cli EXCEPT !.tasks = tasks]
    /\ pc' = "running"
    /\ UNCHANGED NotCli

\* save_montage up to the loop over the channels: the settings, load_stack,
\* montage, calc_extent.  An exception ends the task and is queued.
Prepare(t) ==
    /\ cli.tasks[t].status = "running"
    /\ cli.tasks[t].saved = <<>>
    /\ ~Good(cli.montage_dir[t])
    /\ cli' = [cli EXCEPT !.tasks[t].status = "failed",
                          !.queue = Append(@, t)]
    /\ UNCHANGED <<pc>> /\ UNCHANGED NotCli

\* One turn of the loop over the channels of the montage; after the last
\* the task returns and its result is queued.
SaveChannel(t) ==
    /\ cli.tasks[t].status = "running"
    /\ Good(cli.montage_dir[t])
    /\ LET out == [markers |-> IF cli.tif THEN {}
                               ELSE cli.sim_locations \cap InFrame]
           saved == Append(cli.tasks[t].saved, out)
       IN  IF Len(saved) = cli.montage_dir[t].channels
           THEN cli' = [cli EXCEPT !.tasks[t].saved = saved,
                                   !.tasks[t].status = "returned",
                                   !.queue = Append(@, t)]
           ELSE cli' = [cli EXCEPT !.tasks[t].saved = saved]
    /\ UNCHANGED <<pc>> /\ UNCHANGED NotCli

\* The scheduler's loop: take a result from the queue; re-raise a task's
\* exception, else finish the task and fire the next ones.
Collect ==
    /\ pc = "running"
    /\ cli.queue # <<>>
    /\ LET t == Head(cli.queue)
       IN  IF cli.tasks[t].status = "failed"
           THEN /\ pc' = "failed"
                /\ cli' = [cli EXCEPT !.queue = Tail(@),
                                      !.error = FailureOf(cli.montage_dir[t])]
           ELSE LET done == [cli.tasks EXCEPT ![t].status = "finished"]
                IN  /\ \E tasks \in Fired(done, cli.num_workers) :
                           cli' = [cli EXCEPT !.queue = Tail(@),
                                              !.tasks = tasks]
                    /\ pc' = IF \A u \in DOMAIN done :
                                    done[u].status = "finished"
                             THEN "done" ELSE "running"
    /\ UNCHANGED NotCli

\* The exception leaves cli and the process exits: the pool's workers are
\* terminated, whatever they are doing.
Terminate ==
    /\ pc = "failed"
    /\ \E t \in DOMAIN cli.tasks : cli.tasks[t].status = "running"
    /\ cli' = [cli EXCEPT !.tasks =
                  [t \in DOMAIN cli.tasks |->
                      IF cli.tasks[t].status = "running"
                      THEN [cli.tasks[t] EXCEPT !.status = "killed"]
                      ELSE cli.tasks[t]]]
    /\ UNCHANGED <<pc>> /\ UNCHANGED NotCli

NextCli ==
    \/ Locate
    \/ Compute
    \/ \E t \in 1..MaxDirs : pc \in {"running", "failed"} /\ t \in DOMAIN cli.tasks
                             /\ Prepare(t)
    \/ \E t \in 1..MaxDirs : pc \in {"running", "failed"} /\ t \in DOMAIN cli.tasks
                             /\ SaveChannel(t)
    \/ Collect
    \/ Terminate

SpecCli == InitCli /\ [][NextCli]_vars

-----------------------------------------------------------------------------
(* Claims about cli *)

NoTaskStarted == \A t \in DOMAIN cli.tasks : cli.tasks[t] = Task("pending")

\* No worker is at work and the scheduler has returned or raised.
RunOver ==
    /\ pc \in {"done", "failed"}
    /\ \A t \in DOMAIN cli.tasks : cli.tasks[t].status # "running"

AllSaved(t) == Len(cli.tasks[t].saved) = cli.montage_dir[t].channels

\* C9: when the run is over, every directory whose own processing succeeds
\* has all its per-channel outputs saved, whatever failed beside it.
C9_SiblingsComplete ==
    RunOver => \A t \in DOMAIN cli.tasks : Good(cli.montage_dir[t]) => AllSaved(t)

=============================================================================
